---- MODULE Spec2Model ----
(***************************************************************************)
(* Target-memory models of the assembler (sjasm/memory.h): the flat 64K    *)
(* PlainMemModel and the banked ZXMemModel, with committed and ephemeral   *)
(* writes, paging, bulk and page-addressed writes; and the macro nesting   *)
(* flag of the ListingWriter (src/listing.h).                               *)
(*                                                                         *)
(* The byte buffers are total arrays in the code.  Memory is kept here as  *)
(* the finite map of the cells that hold a non-zero byte (every other cell *)
(* reads 0) and MemUsage as the set of offsets whose bit is set.           *)
(***************************************************************************)
EXTENDS Integers, Sequences, FiniteSets, TLC

VARIABLES
    NumPages,    \* ZXMemModel::NumPages; 0 stands for the PlainMemModel
    SlotPages,   \* ZXMemModel::SlotPages, slot -> page
    Memory,      \* the physical byte buffer (non-zero cells)
    MemUsage,    \* the used-markers (offsets whose bit is true)
    halted,      \* Fatal() was called: the run is over
    last,        \* the last call made on the model, with its result (a run of
                 \* clearEphemerals calls keeps the call it follows)
    nops,        \* number of calls made so far
    committed,   \* history: offsets that received a committed write since clear()
    ephemeral,   \* history: offsets that received an ephemeral write since clear()
    paged,       \* history: a setPage call has succeeded since construction
    InMacro,     \* ListingWriter::InMacro
    MacroStack,  \* ListingWriter::MacroStack, the top is the last element
    macroCalls,  \* history: the startMacro / endMacro calls made, in order
    macroHist    \* history: InMacro and the stack depth at construction and
                 \* after each of these calls

memVars == <<NumPages, SlotPages, Memory, MemUsage, halted, last, nops,
             committed, ephemeral, paged>>

listingVars == <<InMacro, MacroStack, macroCalls, macroHist>>

vars == <<memVars, listingVars>>

(***************************************************************************)
(* Program constants                                                       *)
(***************************************************************************)
PageSize == 16384
NumSlots == 4
AddrSpace == 65536
ByteRange == 256
DefaultSlot == 3

\* MemoryManager::MemModelNames: the page count of each recognised model
MemModelNames == {0, 8, 16, 32, 64}

\* int SlotPages[4] = {0, 5, 2, 7}
\* a slip: pages 5 and 2 swapped
DefaultSlotPages_swapped == [s \in 0..3 |-> <<0, 2, 5, 7>>[s + 1]]

\* a slip: a page that the 128K model does not have
DefaultSlotPages_beyond == [s \in 0..3 |-> <<0, 5, 2, 8>>[s + 1]]

DefaultSlotPages == [s \in 0..3 |-> <<0, 5, 2, 7>>[s + 1]]

PlainSetPageError == "The PLAIN memory model does not support page switching"

(***************************************************************************)
(* Bounds of the model and the inputs the calls are made with              *)
(***************************************************************************)
MaxOps == 3
MaxLen == 2
MaxMacroCalls == 6

Addrs == {0, 65535}
Bytes == {0, 18}
Words == {4660}
WordAddrs == {65535}
BulkOffsets == {65535}
FillOffsets == {131071}
SlotArgs == {-1, 0, 3, 4}
PageArgs == {-1, 1, 7, NumPages}
AddrPageArgs == {1, NumPages}
PageWritePages == {1, 7}
PageWriteOffsets == {0, 16383, 16384}
PageBytes == {52}
FillBytes == {0, 18}
PageFillBytes == {18}
BulkPages == {1}
BulkPageOffsets == {16383, 65536}
SrcBytes == <<52, 18, 52, 18>>
OutOfBoundsBytes == {0, 170}

\* logical addresses the claims are probed at
ProbeAddrs == {0, 1, 16383, 16384, 32768, 49152, 65534, 65535}

(***************************************************************************)
(* Integer conversions                                                     *)
(***************************************************************************)
u16(x) == x % AddrSpace
u8(x) == x % ByteRange

(***************************************************************************)
(* The byte buffer and the used-markers                                    *)
(***************************************************************************)
IsPlain == NumPages = 0

MemSize == IF IsPlain THEN AddrSpace ELSE NumPages * PageSize

MemGet(M, i) == IF i \in DOMAIN M THEN M[i] ELSE 0

MemPut(M, i, b) ==
    IF b = 0
    THEN [j \in DOMAIN M \ {i} |-> M[j]]
    ELSE [j \in DOMAIN M \cup {i} |-> IF j = i THEN b ELSE M[j]]

EmptyMemory == [j \in {} |-> 0]

St == [Memory |-> Memory, MemUsage |-> MemUsage, fatal |-> FALSE]

\* a bug: the slot number is taken for the page number
addrToOffset_unmapped(Addr) ==
    (Addr \div PageSize) * PageSize + (Addr % PageSize)

addrToOffset(Addr) ==
    SlotPages[Addr \div PageSize] * PageSize + (Addr % PageSize)

\* the translation as the specification states it
SpecOffset(Addr) ==
    IF IsPlain THEN Addr
    ELSE SlotPages[Addr \div PageSize] * PageSize + (Addr % PageSize)

Plain_readByte(st, Addr) == MemGet(st.Memory, Addr)

\* a bug: the logical address is used as the physical offset
ZX_readByte_untranslated(st, Addr) == MemGet(st.Memory, Addr)

ZX_readByte(st, Addr) == MemGet(st.Memory, addrToOffset(Addr))

readByteIn(st, Addr) ==
    IF IsPlain THEN Plain_readByte(st, Addr) ELSE ZX_readByte(st, Addr)

readByte(Addr) == readByteIn(St, Addr)

Plain_usedAddr(st, Addr) == Addr \in st.MemUsage

ZX_usedAddr(st, Addr) == addrToOffset(Addr) \in st.MemUsage

usedAddr(Addr) ==
    IF IsPlain THEN Plain_usedAddr(St, Addr) ELSE ZX_usedAddr(St, Addr)

\* a bug: an ephemeral write sets the used-marker too
Plain_writeByte_marksEphemeral(st, Addr, Byte, Ephemeral) ==
    [st EXCEPT !.Memory = MemPut(@, Addr, Byte),
               !.MemUsage = @ \cup {Addr}]

Plain_writeByte(st, Addr, Byte, Ephemeral) ==
    [st EXCEPT !.Memory = MemPut(@, Addr, Byte),
               !.MemUsage = IF Ephemeral THEN @ ELSE @ \cup {Addr}]

\* a bug: the used-marker is never set
ZX_writeByte_unmarked(st, Addr, Byte, Ephemeral) ==
    [st EXCEPT !.Memory = MemPut(@, addrToOffset(Addr), Byte)]

\* a bug: an ephemeral write to a marked byte is dropped
ZX_writeByte_keepsCommitted(st, Addr, Byte, Ephemeral) ==
    LET i == addrToOffset(Addr)
    IN  IF Ephemeral /\ i \in st.MemUsage THEN st
        ELSE [st EXCEPT !.Memory = MemPut(@, i, Byte),
                        !.MemUsage = IF Ephemeral THEN @ ELSE @ \cup {i}]

ZX_writeByte(st, Addr, Byte, Ephemeral) ==
    LET i == addrToOffset(Addr)
    IN  [st EXCEPT !.Memory = MemPut(@, i, Byte),
                   !.MemUsage = IF Ephemeral THEN @ ELSE @ \cup {i}]

writeByteIn(st, Addr, Byte, Ephemeral) ==
    IF IsPlain THEN Plain_writeByte(st, Addr, Byte, Ephemeral)
    ELSE ZX_writeByte(st, Addr, Byte, Ephemeral)

\* a bug: the bytes are stored high byte first
writeWordIn_bigEndian(st, Addr, Word, Ephemeral) ==
    writeByteIn(writeByteIn(st, Addr, u8(Word \div 256), Ephemeral),
                u16(Addr + 1), u8(Word % 256), Ephemeral)

writeWordIn(st, Addr, Word, Ephemeral) ==
    writeByteIn(writeByteIn(st, Addr, u8(Word % 256), Ephemeral),
                u16(Addr + 1), u8(Word \div 256), Ephemeral)

\* a bug: the copy is made with ephemeral writes
RECURSIVE memcpyLoop_ephemeral(_, _, _, _, _)
memcpyLoop_ephemeral(st, Offset, Src, Size, i) ==
    IF i < Size
    THEN memcpyLoop_ephemeral(
             writeByteIn(st, u16(Offset + i), Src[i + 1], TRUE),
             Offset, Src, Size, i + 1)
    ELSE st

RECURSIVE memcpyLoop(_, _, _, _, _)
memcpyLoop(st, Offset, Src, Size, i) ==
    IF i < Size
    THEN memcpyLoop(writeByteIn(st, u16(Offset + i), Src[i + 1], FALSE),
                    Offset, Src, Size, i + 1)
    ELSE st

RECURSIVE memsetLoop(_, _, _, _, _)
memsetLoop(st, Offset, Byte, Size, i) ==
    IF i < Size
    THEN memsetLoop(writeByteIn(st, u16(Offset + i), Byte, FALSE),
                    Offset, Byte, Size, i + 1)
    ELSE st

\* a bug: the used-marker is not consulted
Plain_clearEphemerals_all(st) == [st EXCEPT !.Memory = EmptyMemory]

Plain_clearEphemerals(st) ==
    [st EXCEPT !.Memory = [i \in DOMAIN @ \cap st.MemUsage |-> @[i]]]

\* a bug: nothing is zeroed
ZX_clearEphemerals_none(st) == st

\* a bug: the test of the used-marker is inverted
ZX_clearEphemerals_inverted(st) ==
    [st EXCEPT !.Memory = [i \in DOMAIN @ \ st.MemUsage |-> @[i]]]

\* a bug: only the pages mapped in a slot are swept
ZX_clearEphemerals_visible(st) ==
    [st EXCEPT !.Memory =
        [i \in {j \in DOMAIN @ :
                    \/ j \in st.MemUsage
                    \/ \A s \in DOMAIN SlotPages :
                           SlotPages[s] # j \div PageSize} |-> @[i]]]

ZX_clearEphemerals(st) ==
    [st EXCEPT !.Memory = [i \in DOMAIN @ \cap st.MemUsage |-> @[i]]]

Plain_clear(st) == [st EXCEPT !.Memory = EmptyMemory, !.MemUsage = {}]

\* a bug: the used-markers are left as they are
ZX_clear_keepsMarkers(st) == [st EXCEPT !.Memory = EmptyMemory]

ZX_clear(st) == [st EXCEPT !.Memory = EmptyMemory, !.MemUsage = {}]

\* a bug: the page number is taken for a slot and the write goes through
\* the slot mapping
writeByteToPageIn_viaSlot(st, Page, Offset, Byte) ==
    IF st.fatal THEN st
    ELSE IF Offset >= PageSize THEN [st EXCEPT !.fatal = TRUE]
    ELSE ZX_writeByte(st, (Page % NumSlots) * PageSize + Offset, Byte, FALSE)

\* Fatal() ends the run: nothing after it is executed
writeByteToPageIn(st, Page, Offset, Byte) ==
    IF st.fatal THEN st
    ELSE IF Offset >= PageSize THEN [st EXCEPT !.fatal = TRUE]
    ELSE [st EXCEPT !.Memory = MemPut(@, PageSize * Page + Offset, Byte),
                    !.MemUsage = @ \cup {PageSize * Page + Offset}]

RECURSIVE memcpyToPageLoop(_, _, _, _, _, _)
memcpyToPageLoop(st, Page, Offset, Src, Size, i) ==
    IF i < Size /\ ~st.fatal
    THEN memcpyToPageLoop(
             writeByteToPageIn(st, Page, u16(Offset + i), Src[i + 1]),
             Page, Offset, Src, Size, i + 1)
    ELSE st

RECURSIVE memsetInPageLoop(_, _, _, _, _, _)
memsetInPageLoop(st, Page, Offset, Byte, Size, i) ==
    IF i < Size /\ ~st.fatal
    THEN memsetInPageLoop(
             writeByteToPageIn(st, Page, u16(Offset + i), Byte),
             Page, Offset, Byte, Size, i + 1)
    ELSE st

(***************************************************************************)
(* Topology queries                                                        *)
(***************************************************************************)
isPagedMemory == ~IsPlain

getNumMemPages == IF IsPlain THEN 0 ELSE NumPages

getDefaultSlot == IF IsPlain THEN 0 ELSE DefaultSlot

getPageNumInSlot(Slot) == IF IsPlain THEN 0 ELSE SlotPages[Slot]

ZX_validateSlot(Slot) ==
    IF Slot < 0 \/ Slot >= NumSlots THEN "slot out of range" ELSE "none"

\* a bug: off by one, page NumPages is accepted
ZX_validatePage_offByOne(Page) ==
    IF Page < 0 \/ Page > NumPages THEN "page out of range" ELSE "none"

ZX_validatePage(Page) ==
    IF Page < 0 \/ Page >= NumPages THEN "page out of range" ELSE "none"

ZX_setPageResult(Slot, Page) ==
    IF ZX_validateSlot(Slot) # "none" THEN ZX_validateSlot(Slot)
    ELSE ZX_validatePage(Page)

\* a bug: the flat model reports success
setPageResult_plainOk(Slot, Page) ==
    IF IsPlain THEN "none" ELSE ZX_setPageResult(Slot, Page)

setPageResult(Slot, Page) ==
    IF IsPlain THEN PlainSetPageError ELSE ZX_setPageResult(Slot, Page)

ZX_setPageMapping(Slot, Page) ==
    IF ZX_setPageResult(Slot, Page) = "none"
    THEN [SlotPages EXCEPT ![Slot] = Page]
    ELSE SlotPages

validateSlotResult(Slot) ==
    IF IsPlain THEN PlainSetPageError ELSE ZX_validateSlot(Slot)

ZX_getPageForAddress(CurrentAddr) == SlotPages[CurrentAddr \div PageSize]

getPageForAddress(CurrentAddr) ==
    IF IsPlain THEN 0 ELSE ZX_getPageForAddress(CurrentAddr)

(***************************************************************************)
(* Bulk reads                                                              *)
(***************************************************************************)
\* Memory[Addr + i] with an int index: past the end of the std::array the
\* read is out of bounds and yields whatever lies there
Plain_getBytesResults(Addr, Size) ==
    {d \in [1..Size -> {MemGet(Memory, Addr + i) : i \in 0..(Size - 1)}
                           \cup OutOfBoundsBytes] :
        \A i \in 1..Size :
            Addr + (i - 1) < AddrSpace => d[i] = MemGet(Memory, Addr + (i - 1))}

ZX_getBytes(Addr, Size) ==
    [i \in 1..Size |-> ZX_readByte(St, u16(Addr + (i - 1)))]

ZX_getBytesSlot(Slot, AddrInPage, Size) ==
    LET addr == u16(AddrInPage + Slot * PageSize)
    IN  [i \in 1..Size |-> ZX_readByte(St, u16(addr + (i - 1)))]

(***************************************************************************)
(* Construction.  PlainMemModel's constructor calls clear(); ZXMemModel's  *)
(* constructor is defined outside the header: its buffer is taken to be    *)
(* NumPages * PageSize zero bytes with no used-marker set, and SlotPages    *)
(* keeps its member initialiser.                                           *)
(***************************************************************************)
Init ==
    /\ NumPages \in MemModelNames
    /\ SlotPages = IF NumPages = 0 THEN <<>> ELSE DefaultSlotPages
    /\ Memory = EmptyMemory
    /\ MemUsage = {}
    /\ halted = FALSE
    /\ last = [op |-> "construct"]
    /\ nops = 0
    /\ committed = {}
    /\ ephemeral = {}
    /\ paged = FALSE
    /\ InMacro = FALSE
    /\ MacroStack = <<>>
    /\ macroCalls = <<>>
    /\ macroHist = <<[InMacro |-> FALSE, Depth |-> 0]>>

(***************************************************************************)
(* The calls                                                               *)
(***************************************************************************)
CanCall == ~halted /\ nops < MaxOps

Stored(st) ==
    /\ Memory' = st.Memory
    /\ MemUsage' = st.MemUsage
    /\ halted' = st.fatal
    /\ nops' = nops + 1

Noted(offsets, Ephemeral) ==
    /\ committed' = IF Ephemeral THEN committed ELSE committed \cup offsets
    /\ ephemeral' = IF Ephemeral THEN ephemeral \cup offsets ELSE ephemeral

writeByte(Addr, Byte, Ephemeral) ==
    /\ CanCall
    /\ Stored(writeByteIn(St, Addr, Byte, Ephemeral))
    /\ Noted({SpecOffset(Addr)}, Ephemeral)
    /\ last' = [op |-> "writeByte", Addr |-> Addr, Byte |-> Byte,
                Ephemeral |-> Ephemeral, Old |-> readByte(Addr)]
    /\ UNCHANGED <<NumPages, SlotPages, paged>>
    /\ UNCHANGED listingVars

writeWord(Addr, Word, Ephemeral) ==
    /\ CanCall
    /\ Stored(writeWordIn(St, Addr, Word, Ephemeral))
    /\ Noted({SpecOffset(Addr), SpecOffset((Addr + 1) % 65536)}, Ephemeral)
    /\ last' = [op |-> "writeWord", Addr |-> Addr, Word |-> Word,
                Ephemeral |-> Ephemeral]
    /\ UNCHANGED <<NumPages, SlotPages, paged>>
    /\ UNCHANGED listingVars

memcpyToMemory(Offset, Src, Size) ==
    /\ CanCall
    /\ Stored(memcpyLoop(St, Offset, Src, Size, 0))
    /\ Noted({SpecOffset((Offset + i) % 65536) : i \in 0..(Size - 1)}, FALSE)
    /\ last' = [op |-> "memcpyToMemory", Offset |-> Offset, Src |-> Src,
                Size |-> Size]
    /\ UNCHANGED <<NumPages, SlotPages, paged>>
    /\ UNCHANGED listingVars

memsetInMemory(Offset, Byte, Size) ==
    /\ CanCall
    /\ Stored(memsetLoop(St, Offset, Byte, Size, 0))
    /\ Noted({SpecOffset((Offset + i) % 65536) : i \in 0..(Size - 1)}, FALSE)
    /\ last' = [op |-> "memsetInMemory", Offset |-> Offset, Byte |-> Byte,
                Size |-> Size]
    /\ UNCHANGED <<NumPages, SlotPages, paged>>
    /\ UNCHANGED listingVars

clearEphemerals ==
    /\ CanCall
    /\ Stored(IF IsPlain THEN Plain_clearEphemerals(St)
              ELSE ZX_clearEphemerals(St))
    /\ last' = [op |-> "clearEphemerals",
                after |-> IF last.op = "clearEphemerals" THEN last.after
                          ELSE last,
                times |-> IF last.op = "clearEphemerals" THEN last.times + 1
                          ELSE 1,
                zeroed |-> DOMAIN Memory \ DOMAIN Memory']
    /\ UNCHANGED <<NumPages, SlotPages, committed, ephemeral, paged>>
    /\ UNCHANGED listingVars

clear ==
    /\ CanCall
    /\ Stored(IF IsPlain THEN Plain_clear(St) ELSE ZX_clear(St))
    /\ committed' = {}
    /\ ephemeral' = {}
    /\ last' = [op |-> "clear",
                dirty |-> (Memory # EmptyMemory /\ MemUsage # {})]
    /\ UNCHANGED <<NumPages, SlotPages, paged>>
    /\ UNCHANGED listingVars

setPage(Slot, Page) ==
    /\ CanCall
    /\ SlotPages' = IF IsPlain THEN SlotPages
                    ELSE ZX_setPageMapping(Slot, Page)
    /\ paged' = (paged \/ setPageResult(Slot, Page) = "none")
    /\ last' = [op |-> "setPage", Slot |-> Slot, Page |-> Page,
                ret |-> setPageResult(Slot, Page)]
    /\ nops' = nops + 1
    /\ UNCHANGED <<NumPages, Memory, MemUsage, halted, committed, ephemeral>>
    /\ UNCHANGED listingVars

setPageAddr(CurrentAddr, Page) ==
    /\ CanCall
    /\ SlotPages' = IF IsPlain THEN SlotPages
                    ELSE ZX_setPageMapping(CurrentAddr \div PageSize, Page)
    /\ paged' = (paged \/ setPageResult(CurrentAddr \div PageSize, Page) = "none")
    /\ last' = [op |-> "setPageAddr", CurrentAddr |-> CurrentAddr,
                Page |-> Page,
                ret |-> IF IsPlain THEN setPageResult(0, 0)
                        ELSE setPageResult(CurrentAddr \div PageSize, Page)]
    /\ nops' = nops + 1
    /\ UNCHANGED <<NumPages, Memory, MemUsage, halted, committed, ephemeral>>
    /\ UNCHANGED listingVars

\* the offsets a page-addressed call writes before it ends or fails
PageWritten(Page, Offset, Size) ==
    {PageSize * Page + u16(Offset + i) : i \in
        {k \in 0..(Size - 1) : \A j \in 0..k : u16(Offset + j) < PageSize}}

writeByteToPage(Page, Offset, Byte) ==
    /\ CanCall
    /\ ~IsPlain
    /\ Stored(writeByteToPageIn(St, Page, Offset, Byte))
    /\ Noted(PageWritten(Page, Offset, 1), FALSE)
    /\ last' = [op |-> "writeByteToPage", Page |-> Page, Offset |-> Offset,
                Byte |-> Byte]
    /\ UNCHANGED <<NumPages, SlotPages, paged>>
    /\ UNCHANGED listingVars

memcpyToPage(Page, Offset, Src, Size) ==
    /\ CanCall
    /\ ~IsPlain
    /\ Stored(memcpyToPageLoop(St, Page, Offset, Src, Size, 0))
    /\ Noted(PageWritten(Page, Offset, Size), FALSE)
    /\ last' = [op |-> "memcpyToPage", Page |-> Page, Offset |-> Offset,
                Src |-> Src, Size |-> Size]
    /\ UNCHANGED <<NumPages, SlotPages, paged>>
    /\ UNCHANGED listingVars

memsetInPage(Page, Offset, Byte, Size) ==
    /\ CanCall
    /\ ~IsPlain
    /\ Stored(memsetInPageLoop(St, Page, Offset, Byte, Size, 0))
    /\ Noted(PageWritten(Page, Offset, Size), FALSE)
    /\ last' = [op |-> "memsetInPage", Page |-> Page, Offset |-> Offset,
                Byte |-> Byte, Size |-> Size]
    /\ UNCHANGED <<NumPages, SlotPages, paged>>
    /\ UNCHANGED listingVars

Next ==
    \/ \E a \in Addrs, b \in Bytes, e \in BOOLEAN : writeByte(a, b, e)
    \/ \E a \in WordAddrs, w \in Words, e \in BOOLEAN : writeWord(a, w, e)
    \/ \E o \in BulkOffsets, n \in 0..MaxLen :
           memcpyToMemory(o, SubSeq(SrcBytes, 1, n), n)
    \/ \E o \in FillOffsets, b \in FillBytes, n \in 1..MaxLen :
           memsetInMemory(o, b, n)
    \/ clearEphemerals
    \/ clear
    \/ \E s \in SlotArgs, p \in PageArgs : setPage(s, p)
    \/ \E a \in Addrs, p \in AddrPageArgs : setPageAddr(a, p)
    \/ \E p \in PageWritePages, o \in PageWriteOffsets, b \in PageBytes :
           writeByteToPage(p, o, b)
    \/ \E p \in BulkPages, o \in BulkPageOffsets, n \in 0..MaxLen :
           memcpyToPage(p, o, SubSeq(SrcBytes, 1, n), n)
    \/ \E p \in BulkPages, o \in BulkPageOffsets, b \in PageFillBytes,
          n \in 1..MaxLen : memsetInPage(p, o, b, n)

Spec == Init /\ [][Next]_vars

(***************************************************************************)
(* ListingWriter: the macro nesting flag.  The writer is an object of its  *)
(* own; its calls are explored with the memory model left as constructed.  *)
(***************************************************************************)
Lw == [InMacro |-> InMacro, MacroStack |-> MacroStack]

startMacroIn(l) ==
    [InMacro |-> TRUE, MacroStack |-> Append(l.MacroStack, l.InMacro)]

\* a bug: the saved flag is dropped and the flag is reset
endMacroIn_reset(l) ==
    IF l.MacroStack # <<>>
    THEN [InMacro |-> FALSE,
          MacroStack |-> SubSeq(l.MacroStack, 1, Len(l.MacroStack) - 1)]
    ELSE [l EXCEPT !.InMacro = FALSE]

endMacroIn(l) ==
    IF l.MacroStack # <<>>
    THEN [InMacro |-> l.MacroStack[Len(l.MacroStack)],
          MacroStack |-> SubSeq(l.MacroStack, 1, Len(l.MacroStack) - 1)]
    ELSE [l EXCEPT !.InMacro = FALSE]

MacroCalled(l, call) ==
    /\ Len(macroCalls) < MaxMacroCalls
    /\ InMacro' = l.InMacro
    /\ MacroStack' = l.MacroStack
    /\ macroCalls' = Append(macroCalls, call)
    /\ macroHist' = Append(macroHist, [InMacro |-> l.InMacro,
                                       Depth |-> Len(l.MacroStack)])
    /\ UNCHANGED memVars

startMacro == MacroCalled(startMacroIn(Lw), "startMacro")

endMacro == MacroCalled(endMacroIn(Lw), "endMacro")

ListingInit == Init /\ NumPages = 0

ListingNext == startMacro \/ endMacro

ListingSpec == ListingInit /\ [][ListingNext]_vars

(***************************************************************************)
(* Claims                                                                  *)
(***************************************************************************)
LastIs(op) == last.op = op

AfterIs(op) == LastIs("clearEphemerals") /\ last.after.op = op

\* C1 (as stated): with no paging change since construction, readByte(a) is
\* 0 for every address a that has not received a committed write since the
\* model was cleared.
C1_ZeroUntilCommitted ==
    ~paged =>
        \A a \in ProbeAddrs :
            SpecOffset(a) \notin committed => readByte(a) = 0

\* C1 (amended): with no paging change, readByte(a) is 0 for every address
\* that has received no write at all (committed or ephemeral) since the
\* model was cleared, and right after writeByte(a, v, false) readByte(a) is
\* v and usedAddr(a) is true.
C1_ZeroUntilWritten ==
    /\ ~paged =>
           \A a \in ProbeAddrs :
               SpecOffset(a) \notin (committed \cup ephemeral)
                   => readByte(a) = 0
    /\ (LastIs("writeByte") /\ ~last.Ephemeral) =>
           /\ readByte(last.Addr) = last.Byte
           /\ usedAddr(last.Addr)

C1_Witness ==
    /\ LastIs("writeByte") /\ ~last.Ephemeral /\ last.Byte # 0
    /\ ~paged
    /\ readByte(last.Addr) = last.Byte
    /\ \E a \in ProbeAddrs : SpecOffset(a) \notin (committed \cup ephemeral)

\* C2: after writeByte(a, v, false), any number of clearEphemerals() calls
\* leaves readByte(a) = v; and no clearEphemerals() call changes a byte
\* that received a committed write.
C2_CommittedSurvive ==
    /\ [](AfterIs("writeByte") /\ ~last.after.Ephemeral =>
              /\ readByte(last.after.Addr) = last.after.Byte
              /\ usedAddr(last.after.Addr))
    /\ [][last'.op = "clearEphemerals" =>
              \A o \in committed : MemGet(Memory', o) = MemGet(Memory, o)]_vars

C2_Witness ==
    /\ AfterIs("writeByte") /\ ~last.after.Ephemeral /\ last.after.Byte # 0
    /\ last.times >= 2
    /\ readByte(last.after.Addr) = last.after.Byte

\* C3: writeByte(a, v1, true) followed by clearEphemerals() leaves
\* readByte(a) = 0 unless a committed write touched the location of a; more
\* generally, after clearEphemerals() every location that received an
\* ephemeral write and no committed write since the model was cleared is 0.
C3_EphemeralRoundtrip ==
    /\ (AfterIs("writeByte") /\ last.after.Ephemeral
            /\ SpecOffset(last.after.Addr) \notin committed)
           => readByte(last.after.Addr) = 0
    /\ LastIs("clearEphemerals") =>
           \A o \in ephemeral \ committed : MemGet(Memory, o) = 0

C3_Witness ==
    /\ AfterIs("writeByte") /\ last.after.Ephemeral /\ last.after.Byte # 0
    /\ SpecOffset(last.after.Addr) \notin committed
    /\ readByte(last.after.Addr) = 0

\* C4: clearEphemerals() leaves the used-markers and the slot mapping
\* unchanged, after it every byte whose used-marker is false is 0, and a
\* second call right after a first changes neither bytes, used-markers nor
\* mapping.
C4_ClearEphemeralsIdempotent ==
    [][last'.op = "clearEphemerals" =>
          /\ MemUsage' = MemUsage
          /\ SlotPages' = SlotPages
          /\ \A o \in DOMAIN Memory' : o \in MemUsage'
          /\ LastIs("clearEphemerals") => Memory' = Memory]_vars

C4_Witness ==
    /\ LastIs("clearEphemerals") /\ last.times >= 2
    /\ ephemeral \ committed # {}
    /\ Memory = EmptyMemory

\* C5: on the banked model setPage(slot, page) with slot outside
\* [0, NumSlots) or page outside [0, NumPages) returns an error and leaves
\* getPageForAddress unchanged for every address; with both in range it
\* returns no error and getPageForAddress of every address of that slot is
\* then the new page.
C5_SetPage ==
    [][(~IsPlain /\ last'.op = "setPage") =>
          IF last'.Slot \in 0..(NumSlots - 1) /\ last'.Page \in 0..(NumPages - 1)
          THEN /\ last'.ret = "none"
               /\ \A a \in ProbeAddrs :
                      a \div PageSize = last'.Slot
                          => getPageForAddress(a)' = last'.Page
          ELSE /\ last'.ret # "none"
               /\ \A a \in ProbeAddrs :
                      getPageForAddress(a)' = getPageForAddress(a)]_vars

C5_Witness ==
    /\ ~IsPlain /\ LastIs("setPage") /\ last.ret = "none"
    /\ last.Page # DefaultSlotPages[last.Slot]
    /\ getPageForAddress(last.Slot * PageSize) = last.Page

\* C6: in every reachable state of a banked model the slot-to-page mapping
\* has exactly NumSlots entries, each a page index in [0, NumPages).
C6_MappingValid ==
    ~IsPlain =>
        /\ DOMAIN SlotPages = 0..(NumSlots - 1)
        /\ Cardinality(DOMAIN SlotPages) = 4
        /\ \A s \in DOMAIN SlotPages : SlotPages[s] \in 0..(NumPages - 1)

C6_Witness ==
    /\ ~IsPlain /\ paged /\ SlotPages # DefaultSlotPages
    /\ LastIs("setPage") /\ last.ret # "none"
    /\ last.Slot \in 0..(NumSlots - 1) /\ last.Page = NumPages

\* C7: readByte and usedAddr of a logical address read the buffer at
\* SlotPages[addr / PageSize] * PageSize + addr % PageSize on the banked
\* model and at addr on the flat model, that offset lies inside the
\* buffer, and writeByte changes the buffer at that offset and nowhere else.
C7_Translation ==
    /\ [](\A a \in ProbeAddrs :
              /\ SpecOffset(a) \in 0..(MemSize - 1)
              /\ readByte(a) = MemGet(Memory, SpecOffset(a))
              /\ usedAddr(a) = (SpecOffset(a) \in MemUsage))
    /\ [][last'.op = "writeByte" =>
              /\ Memory' = MemPut(Memory, SpecOffset(last'.Addr), last'.Byte)
              /\ MemUsage' = IF last'.Ephemeral THEN MemUsage
                             ELSE MemUsage \cup {SpecOffset(last'.Addr)}]_vars

C7_Witness ==
    /\ ~IsPlain /\ paged /\ LastIs("writeByte") /\ last.Byte # 0
    /\ SlotPages[last.Addr \div PageSize]
           # DefaultSlotPages[last.Addr \div PageSize]
    /\ MemGet(Memory, SpecOffset(last.Addr)) = last.Byte

\* C8: right after construction of a banked model (8, 16, 32 or 64 pages)
\* the addresses 0x0000, 0x4000, 0x8000 and 0xC000 are mapped to pages 0,
\* 5, 2 and 7, and getDefaultSlot() is 3, the slot mapped to page 7.
C8_DefaultMapping ==
    (LastIs("construct") /\ ~IsPlain) =>
        /\ NumPages \in {8, 16, 32, 64}
        /\ getPageForAddress(0) = 0
        /\ getPageForAddress(16384) = 5
        /\ getPageForAddress(32768) = 2
        /\ getPageForAddress(49152) = 7
        /\ getDefaultSlot = 3
        /\ getPageNumInSlot(getDefaultSlot) = 7

C8_Witness ==
    /\ LastIs("construct") /\ NumPages = 64 /\ nops = 0
    /\ getPageForAddress(16384) = 5

\* C9: writeWord(addr, value, ephemeral) stores the low byte of value at
\* addr and the high byte at (addr + 1) mod 0x10000, as two writeByte calls
\* with the given ephemeral flag; writeWord(0xFFFF, 0x1234, false) leaves
\* 0x34 at 0xFFFF and 0x12 at 0x0000.
C9_WriteWord ==
    /\ [](LastIs("writeWord") =>
              /\ readByte(last.Addr) = last.Word % 256
              /\ readByte((last.Addr + 1) % 65536) = last.Word \div 256
              /\ ~last.Ephemeral =>
                     usedAddr(last.Addr) /\ usedAddr((last.Addr + 1) % 65536)
              /\ (last.Addr = 65535 /\ last.Word = 4660) =>
                     readByte(65535) = 52 /\ readByte(0) = 18)
    /\ [][last'.op = "writeWord" =>
              /\ Memory' = MemPut(MemPut(Memory, SpecOffset(last'.Addr),
                                         last'.Word % 256),
                                  SpecOffset((last'.Addr + 1) % 65536),
                                  last'.Word \div 256)
              /\ MemUsage' = IF last'.Ephemeral THEN MemUsage
                             ELSE MemUsage \cup
                                      {SpecOffset(last'.Addr),
                                       SpecOffset((last'.Addr + 1) % 65536)}]_vars

C9_Witness ==
    /\ LastIs("writeWord") /\ last.Addr = 65535 /\ last.Word = 4660
    /\ ~last.Ephemeral
    /\ readByte(65535) = 52 /\ readByte(0) = 18
    /\ usedAddr(65535) /\ usedAddr(0)

\* the logical addresses a bulk call of Size bytes at Offset writes
BulkAddrs(Offset, Size) == {(Offset + i) % 65536 : i \in 0..(Size - 1)}

\* C10: memcpyToMemory and memsetInMemory of n bytes at destAddr write the
\* i-th byte to (destAddr + i) mod 0x10000 for every i in [0, n) as a
\* committed write: those addresses are used afterwards, and no other
\* byte or used-marker changes.
C10_Bulk ==
    /\ [](/\ LastIs("memcpyToMemory") =>
                 \A i \in 0..(last.Size - 1) :
                     /\ readByte((last.Offset + i) % 65536) = last.Src[i + 1]
                     /\ usedAddr((last.Offset + i) % 65536)
          /\ LastIs("memsetInMemory") =>
                 \A i \in 0..(last.Size - 1) :
                     /\ readByte((last.Offset + i) % 65536) = last.Byte
                     /\ usedAddr((last.Offset + i) % 65536))
    /\ [][last'.op \in {"memcpyToMemory", "memsetInMemory"} =>
              LET touched == {SpecOffset(a) :
                                 a \in BulkAddrs(last'.Offset, last'.Size)}
              IN  /\ MemUsage' = MemUsage \cup touched
                  /\ \A o \in (DOMAIN Memory \cup DOMAIN Memory') \ touched :
                         MemGet(Memory', o) = MemGet(Memory, o)
                  /\ SlotPages' = SlotPages]_vars

C10_Witness ==
    /\ LastIs("memcpyToMemory") /\ last.Offset = 65535 /\ last.Size = 2
    /\ readByte(65535) = 52 /\ readByte(0) = 18
    /\ usedAddr(65535) /\ usedAddr(0) /\ ~usedAddr(1)
    /\ \E o \in DOMAIN Memory : o \notin MemUsage

\* the results getBytes(Dest, Addr, Size) can leave in Dest
getBytesResults(Addr, Size) ==
    IF IsPlain THEN Plain_getBytesResults(Addr, Size)
    ELSE {ZX_getBytes(Addr, Size)}

\* C11: getBytes(dest, addr, size) on the flat and on the banked model
\* leaves readByte((addr + i) mod 0x10000) in dest[i] for every i in
\* [0, size), also when addr + size exceeds 0x10000.
C11_GetBytesWraps ==
    \A a \in Addrs, n \in 0..MaxLen :
        \A d \in getBytesResults(a, n) :
            \A i \in 0..(n - 1) : d[i + 1] = readByte((a + i) % 65536)

\* in-slot addresses the slot form of getBytes is probed at
SlotAddrs == {0, 16383}

\* the byte values page Page holds; a page has PageSize cells, of which the
\* calls of a run write only a few, so 0 is always among them
PageValues(Page) ==
    {0} \cup {Memory[j] : j \in {k \in DOMAIN Memory : k \div PageSize = Page}}

\* C12: on the banked model every byte that getBytes(dest, slot, addrInSlot,
\* size) returns is a byte of the page mapped in the given slot, for every
\* addrInSlot and size, reads up to and over the end of the page included.
C12_SlotReadStaysInPage ==
    ~IsPlain =>
        \A s \in 0..(NumSlots - 1), a \in SlotAddrs, n \in 0..MaxLen :
            \A i \in 1..n :
                ZX_getBytesSlot(s, a, n)[i] \in PageValues(getPageNumInSlot(s))

\* the step is a call of setPage, in its slot form or its address form
SetPageStep == nops' # nops /\ last'.op \in {"setPage", "setPageAddr"}

\* C13: on the flat model every setPage call, in the slot form and in the
\* address form and whatever its arguments, returns the fixed "does not
\* support page switching" error and changes neither a byte nor a
\* used-marker; isPagedMemory() is false, getNumMemPages() is 0 and
\* getPageForAddress is 0 for every address.
C13_FlatNoPaging ==
    /\ [](IsPlain =>
              /\ ~isPagedMemory
              /\ getNumMemPages = 0
              /\ \A a \in ProbeAddrs : getPageForAddress(a) = 0
              /\ (LastIs("setPage") \/ LastIs("setPageAddr")) =>
                     last.ret = PlainSetPageError)
    /\ [][(IsPlain /\ SetPageStep) =>
              /\ Memory' = Memory
              /\ MemUsage' = MemUsage
              /\ SlotPages' = SlotPages]_vars

C13_Witness ==
    /\ IsPlain
    /\ LastIs("setPage") /\ last.Slot = 0 /\ last.Page = 1
    /\ last.ret = PlainSetPageError
    /\ Memory # EmptyMemory /\ MemUsage # {}
    /\ ~isPagedMemory

\* the number of bytes the last page-addressed call was asked to write
PageWriteSize ==
    IF LastIs("writeByteToPage") THEN 1
    ELSE IF LastIs("memcpyToPage") \/ LastIs("memsetInPage") THEN last.Size
    ELSE 0

\* C14: writeByteToPage, memcpyToPage and memsetInPage end the run with a
\* fatal error when the in-page offset of a byte they are to write is
\* PageSize or more, the offset being checked for each byte of a bulk call.
C14_PageOffsetChecked ==
    (\E i \in 0..(PageWriteSize - 1) : last.Offset + i >= PageSize) => halted

\* the step is a call of writeByteToPage with an in-page offset
PageByteStep ==
    nops' # nops /\ last'.op = "writeByteToPage" /\ last'.Offset < PageSize

\* C15: writeByteToPage(page, offset, byte) with a valid page and an in-page
\* offset stores byte at physical offset page * PageSize + offset and marks
\* it used whatever the mapping is, also when the page is mapped in no slot,
\* and leaves the slot-to-page mapping and every other byte unchanged.
C15_PageWriteBypassesMapping ==
    /\ [](LastIs("writeByteToPage") /\ last.Offset < PageSize =>
              LET o == last.Page * PageSize + last.Offset
              IN  MemGet(Memory, o) = last.Byte /\ o \in MemUsage /\ ~halted)
    /\ [][PageByteStep =>
              LET o == last'.Page * PageSize + last'.Offset
              IN  /\ \A j \in (DOMAIN Memory \cup DOMAIN Memory') \ {o} :
                         MemGet(Memory', j) = MemGet(Memory, j)
                  /\ MemUsage' = MemUsage \cup {o}
                  /\ SlotPages' = SlotPages]_vars

C15_Witness ==
    /\ LastIs("writeByteToPage") /\ last.Page = 1 /\ last.Offset = 16383
    /\ paged
    /\ \A s \in DOMAIN SlotPages : SlotPages[s] # 1
    /\ MemGet(Memory, 1 * PageSize + 16383) = last.Byte /\ last.Byte # 0
    /\ \A a \in ProbeAddrs : ~usedAddr(a)
    /\ (1 * PageSize + 16383) \in MemUsage

\* C16: in every reachable state the used-markers that are set are exactly
\* those of the physical bytes that received a committed write (writeByte or
\* writeWord with ephemeral = false, a bulk copy or fill, a page-addressed
\* write) since the last clear(); so ephemeral writes, clearEphemerals and
\* setPage neither set nor reset a used-marker.
C16_UsedIffCommitted ==
    /\ MemUsage = committed
    /\ LastIs("clear") => MemUsage = {}

C16_Witness ==
    /\ AfterIs("writeByte") /\ last.after.Ephemeral /\ last.after.Byte # 0
    /\ SpecOffset(last.after.Addr) \notin MemUsage
    /\ MemUsage # {}
    /\ MemUsage = committed

\* the slot a successful setPage call of either form has just changed
PagedSlot ==
    IF last'.op = "setPage" THEN last'.Slot
    ELSE last'.CurrentAddr \div PageSize

\* C17: on the banked model a write through logical address a lands in the
\* page mapped in a's slot at that time, and is at once readable (and its
\* used-marker visible) through every other slot that maps the same page;
\* a successful setPage changes no byte and no used-marker, and afterwards
\* readByte and usedAddr at the addresses of the changed slot report the
\* bytes of the newly mapped page at the same in-page offset (so mapping a
\* page back, into any slot, shows what was written to it), while the
\* other slots read as before.
C17_PagingAliasing ==
    /\ [](~IsPlain /\ LastIs("writeByte") =>
              /\ MemGet(Memory, SlotPages[last.Addr \div PageSize] * PageSize
                                + (last.Addr % PageSize)) = last.Byte
              /\ \A b \in ProbeAddrs :
                     (/\ SlotPages[b \div PageSize]
                             = SlotPages[last.Addr \div PageSize]
                      /\ b % PageSize = last.Addr % PageSize) =>
                         /\ readByte(b) = last.Byte
                         /\ usedAddr(b) <=> usedAddr(last.Addr))
    /\ [][(~IsPlain /\ SetPageStep /\ last'.ret = "none") =>
              /\ Memory' = Memory
              /\ MemUsage' = MemUsage
              /\ \A a \in ProbeAddrs :
                     IF a \div PageSize = PagedSlot
                     THEN LET o == last'.Page * PageSize + (a % PageSize)
                          IN  /\ readByte(a)' = MemGet(Memory, o)
                              /\ usedAddr(a)' = (o \in MemUsage)
                     ELSE /\ readByte(a)' = readByte(a)
                          /\ usedAddr(a)' = usedAddr(a)]_vars

C17_Witness ==
    /\ LastIs("setPage") /\ last.ret = "none"
    /\ last.Slot = 0 /\ last.Page = 7
    /\ SlotPages[3] = 1
    /\ readByte(16383) = 18 /\ usedAddr(16383)
    /\ readByte(65535) = 0 /\ ~usedAddr(65535)

\* C18: when a location that holds a committed value v is overwritten by
\* writeByte(a, v1, true), a following clearEphemerals() (or several) leaves
\* readByte(a) = v1 with usedAddr(a) still true: the ephemeral value is
\* kept, and where v1 # v the committed value v is not restored.
C18_RollbackIsNoUndo ==
    (/\ AfterIs("writeByte") /\ last.after.Ephemeral
     /\ SpecOffset(last.after.Addr) \in committed) =>
        /\ readByte(last.after.Addr) = last.after.Byte
        /\ usedAddr(last.after.Addr)
        /\ last.after.Old # last.after.Byte =>
               readByte(last.after.Addr) # last.after.Old

C18_Witness ==
    /\ AfterIs("writeByte") /\ last.after.Ephemeral
    /\ SpecOffset(last.after.Addr) \in committed
    /\ last.after.Old = 52 /\ last.after.Byte = 18
    /\ readByte(last.after.Addr) = 18
    /\ usedAddr(last.after.Addr)

\* the physical pages mapped in some slot
MappedPages == {SlotPages[s] : s \in DOMAIN SlotPages}

\* C19: on the banked model clearEphemerals() sweeps the whole physical
\* buffer, not the 64K visible through the slots: after it every byte with
\* no used-marker is zero in every page, so an ephemeral byte written while
\* its page was mapped is zeroed even if the page has since been mapped out
\* of every slot; and clearEphemerals() leaves the slot-to-page mapping
\* unchanged.
C19_SweepsWholeBuffer ==
    /\ [](~IsPlain /\ LastIs("clearEphemerals") =>
              \A j \in DOMAIN Memory : j \in MemUsage)
    /\ [][(~IsPlain /\ nops' # nops /\ last'.op = "clearEphemerals") =>
              /\ SlotPages' = SlotPages
              /\ \A j \in DOMAIN Memory :
                     MemGet(Memory', j)
                         = IF j \in MemUsage THEN Memory[j] ELSE 0]_vars

C19_Witness ==
    /\ ~IsPlain /\ LastIs("clearEphemerals")
    /\ \E o \in last.zeroed :
           /\ o \in ephemeral \ committed
           /\ o \div PageSize \notin MappedPages
           /\ MemGet(Memory, o) = 0

\* C20: clear() on the banked model zeroes every byte and every used-marker
\* of all NumPages pages, and leaves the slot-to-page mapping exactly as it
\* was (it is not reset to the default 0, 5, 2, 7) and the size of the
\* buffer unchanged.
C20_ClearKeepsMapping ==
    /\ [](~IsPlain /\ LastIs("clear") =>
              /\ Memory = EmptyMemory
              /\ MemUsage = {}
              /\ \A a \in ProbeAddrs : readByte(a) = 0 /\ ~usedAddr(a))
    /\ [][(~IsPlain /\ nops' # nops /\ last'.op = "clear") =>
              /\ SlotPages' = SlotPages
              /\ NumPages' = NumPages
              /\ MemSize' = MemSize]_vars

C20_Witness ==
    /\ ~IsPlain /\ LastIs("clear") /\ last.dirty
    /\ SlotPages # DefaultSlotPages
    /\ Memory = EmptyMemory /\ MemUsage = {}

\* startMacro calls less endMacro calls among the calls i+1 .. k
MacroNet(i, k) ==
    Cardinality({c \in (i + 1)..k : macroCalls[c] = "startMacro"})
        - Cardinality({c \in (i + 1)..k : macroCalls[c] = "endMacro"})

\* the calls i+1 .. j are a balanced, properly nested sequence
MacroBalanced(i, j) ==
    /\ MacroNet(i, j) = 0
    /\ \A k \in (i + 1)..j : MacroNet(i, k) >= 0

\* C21: startMacro() pushes the current InMacro flag and sets the flag;
\* after any balanced, properly nested sequence of startMacro / endMacro
\* calls InMacro and the depth of MacroStack are what they were before the
\* sequence (so endMacro() restores the flag its matching startMacro()
\* saved); an endMacro() on an empty stack clears the flag and leaves the
\* stack empty.
C21_MacroNesting ==
    /\ \A i \in 0..Len(macroCalls), j \in 0..Len(macroCalls) :
           (i < j /\ MacroBalanced(i, j)) => macroHist[j + 1] = macroHist[i + 1]
    /\ \A k \in 1..Len(macroCalls) :
           /\ macroCalls[k] = "startMacro" =>
                  /\ macroHist[k + 1].InMacro
                  /\ macroHist[k + 1].Depth = macroHist[k].Depth + 1
           /\ (macroCalls[k] = "endMacro" /\ macroHist[k].Depth = 0) =>
                  macroHist[k + 1] = [InMacro |-> FALSE, Depth |-> 0]
    /\ (macroCalls # <<>> /\ macroCalls[Len(macroCalls)] = "startMacro") =>
           MacroStack[Len(MacroStack)] = macroHist[Len(macroCalls)].InMacro
    /\ macroHist[Len(macroHist)] = [InMacro |-> InMacro,
                                    Depth |-> Len(MacroStack)]

C21_Witness ==
    /\ macroCalls = <<"endMacro", "startMacro", "startMacro", "startMacro",
                      "endMacro", "endMacro">>
    /\ MacroBalanced(2, 6) /\ MacroNet(2, 4) = 2
    /\ macroHist[3] = [InMacro |-> TRUE, Depth |-> 1]
    /\ InMacro /\ MacroStack = <<FALSE>>
====
